---- MODULE Spec2Model ----
(***************************************************************************)
(* The Invoice API metadata responder (app/main.py): GET /info returns the *)
(* record assembled by build_payload from three environment variables,     *)
(* with literal fallbacks, and from the system clock.                      *)
(*                                                                         *)
(* The process environment is drawn at start-up and is only ever read.     *)
(* Several requests may be in flight; each runs build_payload line by      *)
(* line, and the lines of different requests and the ticks of the clock    *)
(* interleave freely.                                                      *)
(***************************************************************************)
EXTENDS Naturals, Sequences, FiniteSets, TLC

(* ------------------------------ bounds --------------------------------- *)

\* Requests that can be in flight at the same time.
NumRequests == 2

\* The clock runs from 0 to MaxClock seconds after the epoch.
MaxClock == 2

Requests == 1..NumRequests
Clock == 0..MaxClock

(* --------------------------- environment ------------------------------- *)

Keys == {"BUILD_TIME", "GIT_SHA", "SERVICE_VERSION"}

\* The values a variable takes when it is set: empty, well formed, malformed.
EnvValues(key) ==
    CASE key = "BUILD_TIME"      -> {"", "2024-01-01T00:00:00Z", "yesterday"}
      [] key = "GIT_SHA"         -> {"", "abc123"}
      [] key = "SERVICE_VERSION" -> {"", "1.2.3"}

\* os.environ: a mapping from the names that are set to their strings.
Environments ==
    UNION { { e \in [S -> UNION {EnvValues(k) : k \in Keys}] :
                \A k \in S : e[k] \in EnvValues(k) } : S \in SUBSET Keys }

\* os.getenv(key): the string when the name is set, None otherwise.  An
\* optional string is a sequence of at most one string; None is <<>>.
None == <<>>
getenv(e, key) == IF key \in DOMAIN e THEN <<e[key]>> ELSE None

\* Python truthiness of an optional string: neither None nor "".
Truthy(value) == value # None /\ value[1] # ""

\* Mutant: value if value is not None else fallback.
_env_is_not_None(e, key, fallback) ==
    LET value == getenv(e, key)
    IN  IF value # None THEN value[1] ELSE fallback

\* _env(key, fallback): value if value else fallback.
_env(e, key, fallback) ==
    LET value == getenv(e, key)
    IN  IF Truthy(value) THEN value[1] ELSE fallback

(* ------------------------------ clock ---------------------------------- *)

Digits == <<"0", "1", "2", "3", "4", "5", "6", "7", "8", "9">>
TwoDigits(n) == Digits[(n \div 10) + 1] \o Digits[(n % 10) + 1]

\* datetime.now(timezone.utc).isoformat() at t whole seconds after the epoch.
isoformat(t) ==
    "1970-01-01T00:" \o TwoDigits((t \div 60) % 60) \o ":" \o TwoDigits(t % 60)
        \o "+00:00"

(* ------------------------------ record --------------------------------- *)

\* Mutant: the list kept sorted by name.
dependencies_sorted ==
    << [name |-> "fastapi", version |-> "0.115.6"],
       [name |-> "httpx",   version |-> "0.27.2"],
       [name |-> "uvicorn", version |-> "0.32.1"] >>

dependencies ==
    << [name |-> "fastapi", version |-> "0.115.6"],
       [name |-> "uvicorn", version |-> "0.32.1"],
       [name |-> "httpx",   version |-> "0.27.2"] >>

\* Mutant: git_sha and version stored under each other's key.
Payload_swapped(build_time, git_sha, version) ==
    [ serviceName  |-> "Invoice API",
      techStack    |-> "Python 3.11 + FastAPI",
      buildTime    |-> build_time,
      gitSha       |-> version,
      buildVersion |-> git_sha,
      dependencies |-> dependencies ]

\* The dict literal returned by build_payload.
Payload(build_time, git_sha, version) ==
    [ serviceName  |-> "Invoice API",
      techStack    |-> "Python 3.11 + FastAPI",
      buildTime    |-> build_time,
      gitSha       |-> git_sha,
      buildVersion |-> version,
      dependencies |-> dependencies ]

\* build_payload run on its own under environment e with the clock at t.
build_payload(e, t) ==
    Payload(_env(e, "BUILD_TIME", isoformat(t)),
            _env(e, "GIT_SHA", "dev-snapshot"),
            _env(e, "SERVICE_VERSION", "0.0.0"))

(* ------------------------------- state --------------------------------- *)

VARIABLES
    environ,     \* os.environ of the process
    clock,       \* the system clock, in seconds
    pc,          \* pc[r]: the line request r is at
    locals,      \* locals[r]: the local variables of r's build_payload frame
    resp,        \* resp[r]: the record returned to request r
    clockAt,     \* clockAt[r]: the clock when r's call read it (history)
    clockReads   \* clockReads[r]: clock reads made by r's call (history)

vars == <<environ, clock, pc, locals, resp, clockAt, clockReads>>

NoLocals == [n \in {} |-> ""]
NoResponse == [n \in {} |-> ""]

Init ==
    /\ environ \in Environments
    /\ clock = 0
    /\ pc = [r \in Requests |-> "idle"]
    /\ locals = [r \in Requests |-> NoLocals]
    /\ resp = [r \in Requests |-> NoResponse]
    /\ clockAt = [r \in Requests |-> 0]
    /\ clockReads = [r \in Requests |-> 0]

(* ------------------------------ actions -------------------------------- *)

\* The clock advances.
Tick ==
    /\ clock < MaxClock
    /\ clock' = clock + 1
    /\ UNCHANGED <<environ, pc, locals, resp, clockAt, clockReads>>

\* GET /info is routed to info(), which calls build_payload.
info(r) ==
    /\ pc[r] = "idle"
    /\ pc' = [pc EXCEPT ![r] = "now"]
    /\ UNCHANGED <<environ, clock, locals, resp, clockAt, clockReads>>

\* Mutant: the clock is read only when BUILD_TIME is unset or empty.
Now_lazy(r) ==
    /\ pc[r] = "now"
    /\ IF Truthy(getenv(environ, "BUILD_TIME"))
          THEN UNCHANGED <<locals, clockAt, clockReads>>
          ELSE /\ locals' = [locals EXCEPT ![r] = @ @@ ("now" :> isoformat(clock))]
               /\ clockAt' = [clockAt EXCEPT ![r] = clock]
               /\ clockReads' = [clockReads EXCEPT ![r] = @ + 1]
    /\ pc' = [pc EXCEPT ![r] = "build_time"]
    /\ UNCHANGED <<environ, clock, resp>>

\* Mutant: the timestamp is kept in one module-level variable that every
\* call in flight reads.
Now_shared(r) ==
    /\ pc[r] = "now"
    /\ locals' = [q \in Requests |->
           IF q = r THEN locals[r] @@ ("now" :> isoformat(clock))
           ELSE IF "now" \in DOMAIN locals[q]
                THEN [locals[q] EXCEPT !.now = isoformat(clock)]
                ELSE locals[q]]
    /\ clockAt' = [clockAt EXCEPT ![r] = clock]
    /\ clockReads' = [clockReads EXCEPT ![r] = @ + 1]
    /\ pc' = [pc EXCEPT ![r] = "build_time"]
    /\ UNCHANGED <<environ, clock, resp>>

\* Mutant: the timestamp is the one taken when the process started.
Now_at_startup(r) ==
    /\ pc[r] = "now"
    /\ locals' = [locals EXCEPT ![r] = @ @@ ("now" :> isoformat(0))]
    /\ clockAt' = [clockAt EXCEPT ![r] = clock]
    /\ clockReads' = [clockReads EXCEPT ![r] = @ + 1]
    /\ pc' = [pc EXCEPT ![r] = "build_time"]
    /\ UNCHANGED <<environ, clock, resp>>

\* Line 26, the argument: datetime.now(timezone.utc).isoformat() is evaluated
\* before _env is entered, whatever BUILD_TIME holds.
Now(r) ==
    /\ pc[r] = "now"
    /\ locals' = [locals EXCEPT ![r] = @ @@ ("now" :> isoformat(clock))]
    /\ clockAt' = [clockAt EXCEPT ![r] = clock]
    /\ clockReads' = [clockReads EXCEPT ![r] = @ + 1]
    /\ pc' = [pc EXCEPT ![r] = "build_time"]
    /\ UNCHANGED <<environ, clock, resp>>

\* Mutant: BUILD_TIME is never looked up.
BuildTime_ignores_env(r) ==
    /\ pc[r] = "build_time"
    /\ locals' = [locals EXCEPT ![r] = @ @@ ("build_time" :> @.now)]
    /\ pc' = [pc EXCEPT ![r] = "git_sha"]
    /\ UNCHANGED <<environ, clock, resp, clockAt, clockReads>>

\* Mutant: a BUILD_TIME that does not parse as a timestamp is dropped.
BuildTime_validating(r) ==
    /\ pc[r] = "build_time"
    /\ locals' = [locals EXCEPT ![r] =
           @ @@ ("build_time" :>
                   IF getenv(environ, "BUILD_TIME") = <<"2024-01-01T00:00:00Z">>
                   THEN "2024-01-01T00:00:00Z" ELSE @.now)]
    /\ pc' = [pc EXCEPT ![r] = "git_sha"]
    /\ UNCHANGED <<environ, clock, resp, clockAt, clockReads>>

\* Line 26: build_time = _env("BUILD_TIME", <now>).
BuildTime(r) ==
    /\ pc[r] = "build_time"
    /\ locals' = [locals EXCEPT ![r] =
           @ @@ ("build_time" :> _env(environ, "BUILD_TIME", @.now))]
    /\ pc' = [pc EXCEPT ![r] = "git_sha"]
    /\ UNCHANGED <<environ, clock, resp, clockAt, clockReads>>

\* Line 27: git_sha = _env("GIT_SHA", "dev-snapshot").
GitSha(r) ==
    /\ pc[r] = "git_sha"
    /\ locals' = [locals EXCEPT ![r] =
           @ @@ ("git_sha" :> _env(environ, "GIT_SHA", "dev-snapshot"))]
    /\ pc' = [pc EXCEPT ![r] = "version"]
    /\ UNCHANGED <<environ, clock, resp, clockAt, clockReads>>

\* Mutant: the fallback of the line above is reused.
Version_wrong_fallback(r) ==
    /\ pc[r] = "version"
    /\ locals' = [locals EXCEPT ![r] =
           @ @@ ("version" :> _env(environ, "SERVICE_VERSION", "dev-snapshot"))]
    /\ pc' = [pc EXCEPT ![r] = "return"]
    /\ UNCHANGED <<environ, clock, resp, clockAt, clockReads>>

\* Line 28: version = _env("SERVICE_VERSION", "0.0.0").
Version(r) ==
    /\ pc[r] = "version"
    /\ locals' = [locals EXCEPT ![r] =
           @ @@ ("version" :> _env(environ, "SERVICE_VERSION", "0.0.0"))]
    /\ pc' = [pc EXCEPT ![r] = "return"]
    /\ UNCHANGED <<environ, clock, resp, clockAt, clockReads>>

\* Mutant: an unset or empty SERVICE_VERSION leaves buildVersion out.
Return_optional_version(r) ==
    /\ pc[r] = "return"
    /\ resp' = [resp EXCEPT ![r] =
           IF Truthy(getenv(environ, "SERVICE_VERSION"))
           THEN Payload(locals[r].build_time, locals[r].git_sha, locals[r].version)
           ELSE [ serviceName  |-> "Invoice API",
                  techStack    |-> "Python 3.11 + FastAPI",
                  buildTime    |-> locals[r].build_time,
                  gitSha       |-> locals[r].git_sha,
                  dependencies |-> dependencies ]]
    /\ locals' = [locals EXCEPT ![r] = NoLocals]
    /\ pc' = [pc EXCEPT ![r] = "done"]
    /\ UNCHANGED <<environ, clock, clockAt, clockReads>>

\* Lines 30-43: the dependency list and the returned dict.
Return(r) ==
    /\ pc[r] = "return"
    /\ resp' = [resp EXCEPT ![r] =
           Payload(locals[r].build_time, locals[r].git_sha, locals[r].version)]
    /\ locals' = [locals EXCEPT ![r] = NoLocals]
    /\ pc' = [pc EXCEPT ![r] = "done"]
    /\ UNCHANGED <<environ, clock, clockAt, clockReads>>

\* The framework has sent the response; the request slot is free again.
Respond(r) ==
    /\ pc[r] = "done"
    /\ pc' = [pc EXCEPT ![r] = "idle"]
    /\ resp' = [resp EXCEPT ![r] = NoResponse]
    /\ clockAt' = [clockAt EXCEPT ![r] = 0]
    /\ clockReads' = [clockReads EXCEPT ![r] = 0]
    /\ UNCHANGED <<environ, clock, locals>>

Next ==
    \/ Tick
    \/ \E r \in Requests : info(r)
    \/ \E r \in Requests : Now(r)
    \/ \E r \in Requests : BuildTime(r)
    \/ \E r \in Requests : GitSha(r)
    \/ \E r \in Requests : Version(r)
    \/ \E r \in Requests : Return(r)
    \/ \E r \in Requests : Respond(r)

Spec == Init /\ [][Next]_vars

\* Python runs a call of build_payload to completion once it has started.
build_payload_step(r) ==
    Now(r) \/ BuildTime(r) \/ GitSha(r) \/ Version(r) \/ Return(r)

FairSpec == Spec /\ \A r \in Requests : WF_vars(build_payload_step(r))

(* ------------------------------ claims --------------------------------- *)

Done(r) == pc[r] = "done"
IsSet(key) == Truthy(getenv(environ, key))

\* C1: when GIT_SHA and SERVICE_VERSION are set to non-empty strings g and v,
\* the returned record has gitSha = g and buildVersion = v, whatever
\* BUILD_TIME holds.
C1_SetValuesPassThrough ==
    \A r \in Requests :
        (Done(r) /\ IsSet("GIT_SHA") /\ IsSet("SERVICE_VERSION")) =>
            /\ resp[r].gitSha = environ["GIT_SHA"]
            /\ resp[r].buildVersion = environ["SERVICE_VERSION"]

C1_Witness ==
    \E r \in Requests :
        /\ Done(r) /\ IsSet("GIT_SHA") /\ IsSet("SERVICE_VERSION")
        /\ ~IsSet("BUILD_TIME")
        /\ resp[r].gitSha = "abc123" /\ resp[r].buildVersion = "1.2.3"

\* C2: when GIT_SHA is unset or empty, the returned record has
\* gitSha = "dev-snapshot", whatever BUILD_TIME and SERVICE_VERSION hold.
C2_GitShaFallback ==
    \A r \in Requests :
        (Done(r) /\ ~IsSet("GIT_SHA")) => resp[r].gitSha = "dev-snapshot"

C2_Witness ==
    \E r \in Requests :
        /\ Done(r) /\ getenv(environ, "GIT_SHA") = <<"">>
        /\ IsSet("SERVICE_VERSION") /\ IsSet("BUILD_TIME")
        /\ resp[r].gitSha = "dev-snapshot"

\* C3: when SERVICE_VERSION is unset or empty, the returned record has
\* buildVersion = "0.0.0", whatever BUILD_TIME and GIT_SHA hold.
C3_VersionFallback ==
    \A r \in Requests :
        (Done(r) /\ ~IsSet("SERVICE_VERSION")) => resp[r].buildVersion = "0.0.0"

C3_Witness ==
    \E r \in Requests :
        /\ Done(r) /\ getenv(environ, "SERVICE_VERSION") = <<"">>
        /\ IsSet("GIT_SHA") /\ IsSet("BUILD_TIME")
        /\ resp[r].buildVersion = "0.0.0"

\* C4: every returned record carries the three dependencies fastapi 0.115.6,
\* uvicorn 0.32.1, httpx 0.27.2 in that order, serviceName "Invoice API" and
\* techStack "Python 3.11 + FastAPI".
C4_FixedFields ==
    \A r \in Requests :
        Done(r) =>
            /\ Len(resp[r].dependencies) = 3
            /\ resp[r].dependencies[1] = [name |-> "fastapi", version |-> "0.115.6"]
            /\ resp[r].dependencies[2] = [name |-> "uvicorn", version |-> "0.32.1"]
            /\ resp[r].dependencies[3] = [name |-> "httpx", version |-> "0.27.2"]
            /\ resp[r].serviceName = "Invoice API"
            /\ resp[r].techStack = "Python 3.11 + FastAPI"

C4_Witness ==
    \E r, q \in Requests :
        /\ r # q /\ Done(r) /\ Done(q)
        /\ resp[r].buildTime # resp[q].buildTime
        /\ resp[r].dependencies = resp[q].dependencies

\* C5: two calls made under the same environment with BUILD_TIME set to a
\* non-empty string return identical records, whatever the clock showed at
\* each call.
C5_SameEnvironmentSameRecord ==
    \A r, q \in Requests :
        (Done(r) /\ Done(q) /\ IsSet("BUILD_TIME")) => resp[r] = resp[q]

C5_Witness ==
    \E r, q \in Requests :
        /\ Done(r) /\ Done(q) /\ IsSet("BUILD_TIME")
        /\ clockAt[r] # clockAt[q]
        /\ resp[r] = resp[q]

\* C6: the call is total: whatever the environment and the clock, a call that
\* has started reaches its return, and the record returned has exactly the
\* six fields, with buildTime, gitSha and buildVersion non-empty strings.
C6_Shape ==
    \A r \in Requests :
        Done(r) =>
            /\ DOMAIN resp[r] = {"serviceName", "techStack", "buildTime",
                                  "gitSha", "buildVersion", "dependencies"}
            /\ resp[r].buildTime \in STRING /\ resp[r].buildTime # ""
            /\ resp[r].gitSha \in STRING /\ resp[r].gitSha # ""
            /\ resp[r].buildVersion \in STRING /\ resp[r].buildVersion # ""

C6_Total ==
    /\ []C6_Shape
    /\ \A r \in Requests : (pc[r] = "now") ~> Done(r)

C6_Witness ==
    \E r \in Requests :
        /\ Done(r)
        /\ \A k \in Keys : getenv(environ, k) = <<"">>
        /\ resp[r].buildTime = isoformat(clockAt[r])

\* C7 as stated: in a call made while BUILD_TIME is set to a non-empty
\* string, no clock read occurs.
C7_NoClockReadWhenSet ==
    \A r \in Requests : IsSet("BUILD_TIME") => clockReads[r] = 0

\* C7 amended: every call reads the clock exactly once, as its first step,
\* also when BUILD_TIME is set to a non-empty string.
C7_OneClockReadPerCall ==
    \A r \in Requests :
        clockReads[r] = IF pc[r] \in {"idle", "now"} THEN 0 ELSE 1

C7_Witness ==
    \E r \in Requests :
        /\ Done(r) /\ IsSet("BUILD_TIME")
        /\ clockReads[r] = 1
        /\ resp[r].buildTime = environ["BUILD_TIME"]

\* C8: no step writes the environment, a step of one request leaves the
\* locals and the record of every other request unchanged, and each record
\* returned is the one build_payload yields when run alone under the
\* environment and the clock value of its own call.
C8_Step ==
    /\ environ' = environ
    /\ \A r, q \in Requests :
           (pc'[r] # pc[r] /\ q # r) =>
               /\ pc'[q] = pc[q]
               /\ locals'[q] = locals[q]
               /\ resp'[q] = resp[q]
    /\ \A r \in Requests :
           (pc[r] = "return" /\ pc'[r] = "done") =>
               resp'[r] = build_payload(environ, clockAt[r])

C8_NoSharedState == [][C8_Step]_vars

C8_Witness ==
    \E r, q \in Requests :
        /\ Done(r) /\ pc[q] = "build_time"
        /\ clockAt[r] > clockAt[q]
        /\ ~IsSet("BUILD_TIME")
        /\ resp[r].buildTime # locals[q].now

\* C9: when BUILD_TIME is unset or empty, buildTime is the clock value read
\* during that same call.
C9_BuildTimeIsClockAtCall ==
    \A r \in Requests :
        (Done(r) /\ ~IsSet("BUILD_TIME")) =>
            resp[r].buildTime = isoformat(clockAt[r])

C9_Witness ==
    \E r, q \in Requests :
        /\ Done(r) /\ Done(q) /\ ~IsSet("BUILD_TIME")
        /\ clockAt[r] > 0 /\ clockAt[q] > clockAt[r]
        /\ resp[r].buildTime # resp[q].buildTime

\* C10: when BUILD_TIME is set to a non-empty string b, well formed or not,
\* buildTime is b unchanged and the clock has no influence on the record.
C10_BuildTimeVerbatim ==
    \A r \in Requests :
        (Done(r) /\ IsSet("BUILD_TIME")) =>
            /\ resp[r].buildTime = environ["BUILD_TIME"]
            /\ \A t \in Clock : resp[r] = build_payload(environ, t)

C10_Witness ==
    \E r \in Requests :
        /\ Done(r) /\ getenv(environ, "BUILD_TIME") = <<"yesterday">>
        /\ clockAt[r] > 0
        /\ resp[r].buildTime = "yesterday"

====
